---- MODULE Spec2Model ----
(***************************************************************************)
(* Model of sophgo_mq/prepare_by_platform.py: the quantization-config      *)
(* resolver get_qconfig_by_platform (with the process-wide ParamsTable it  *)
(* reads through chipparams), the graph preparation passes                 *)
(* duplicate_reused_nodes / prepare_constant_dict, and prepare_by_platform *)
(* itself.  Spec runs calls of the resolver, SpecGraph the graph passes on *)
(* any graph, SpecPrepare one call of prepare_by_platform; the tracer,     *)
(* GraphModule, shape propagation and the quantizers are library code and  *)
(* appear by their outcomes.                                               *)
(*                                                                         *)
(* Python values are encoded as follows.  A dict is a TLA+ function; a     *)
(* dict that the code iterates (object_type, module_name) is a sequence of *)
(* <<key, value>> pairs with distinct keys, in insertion order.  None for  *)
(* a name is the string NONE; an optional record is a sequence of length   *)
(* 0 or 1.  A Python string the code concatenates or splits is a sequence  *)
(* of one-character strings.                                               *)
(***************************************************************************)
EXTENDS Integers, Sequences, FiniteSets, TLC

VARIABLES ParamsTable, pc, request, result, calls,
          model, traced, graph, modules, dup_modules, constant_dict, gpc, copies,
          custom_config, swapped, preserve_attr_dict, prepared, trail

vars == <<ParamsTable, pc, request, result, calls,
          model, traced, graph, modules, dup_modules, constant_dict, gpc, copies,
          custom_config, swapped, preserve_attr_dict, prepared, trail>>

cfgVars == <<ParamsTable, pc, request, result, calls>>
graphVars == <<model, traced, graph, modules, dup_modules, constant_dict, gpc, copies>>
graphVars_but_gpc == <<model, traced, graph, modules, dup_modules, constant_dict, copies>>
\* prepare_by_platform outside the graph passes: its prepare_custom_config_dict,
\* whether _swap_ff_with_fxff has run, the attribute snapshot, the prepared
\* model, and the steps completed so far
prepVars == <<custom_config, swapped, preserve_attr_dict, prepared, trail>>

----------------------------------------------------------------------------
(* Generic Python helpers                                                  *)

NONE == "<None>"

EmptyDict == <<>>

\* dict.update(other): additive union, the right operand wins on a shared key
DictUpdate(d, other) ==
  [k \in (DOMAIN d) \cup (DOMAIN other) |->
      IF k \in DOMAIN other THEN other[k] ELSE d[k]]

\* d[key] = value
DictSet(d, key, value) ==
  [k \in (DOMAIN d) \cup {key} |-> IF k = key THEN value ELSE d[k]]

\* truth value of a name taken from the override mapping: None and '' are false
Truthy(name) == name # NONE /\ name # ""

----------------------------------------------------------------------------
(* QuantizeScheme (sophgo_mq.scheme)                                       *)

QuantizeScheme(symmetry, per_channel, pot_scale, bit, symmetric_range) ==
  [symmetry |-> symmetry, per_channel |-> per_channel, pot_scale |-> pot_scale,
   bit |-> bit, symmetric_range |-> symmetric_range, kwargs |-> EmptyDict]

\* QuantizeScheme(**d) for a user mapping with the four documented keys
QuantizeSchemeFromDict(d) ==
  QuantizeScheme(d.symmetry, d.per_channel, d.pot_scale, d.bit, FALSE)

\* the flat parameter mapping handed to a fake-quantize constructor
to_observer_params(s) ==
  [bit |-> s.bit, symmetry |-> s.symmetry, per_channel |-> s.per_channel,
   pot_scale |-> s.pot_scale, symmetric_range |-> s.symmetric_range,
   extra |-> s.kwargs]

----------------------------------------------------------------------------
(* Registries and the chip-profile table                                   *)

ObserverDict ==
  [n \in {"MinMaxObserver", "EMAMinMaxObserver", "MinMaxFloorObserver",
          "PoTModeObserver", "EMAQuantileObserver", "ClipStdObserver",
          "LSQObserver", "MSEObserver", "EMAMSEObserver", "KLDObserver"}
     |-> <<"sophgo_mq.observer", n>>]

FakeQuantizeDict ==
  [n \in {"FixedFakeQuantize", "LearnableFakeQuantize", "NNIEFakeQuantize",
          "DoReFaFakeQuantize", "DSQFakeQuantize", "PACTFakeQuantize",
          "TqtFakeQuantize", "AdaRoundFakeQuantize", "QDropFakeQuantize",
          "E4M3FakeQuantize", "E5M2FakeQuantize", "GPTQFakeQuantize",
          "FP4FakeQuantize", "GPTQFP4FakeQuantize", "FP4GROUPFakeQuantize",
          "FP4GROUPFakeQuantize1", "Fp16FakeQuantize", "BF16FakeQuantize"}
     |-> <<"sophgo_mq.fake_quantize", n>>]

FakeQuantizeDict_Chip ==
  [n \in {"FixedFakeQuantize", "LearnableFakeQuantize",
          "DoReFaFakeQuantize", "DSQFakeQuantize", "PACTFakeQuantize",
          "TqtFakeQuantize", "AdaRoundFakeQuantize", "QDropFakeQuantize",
          "E4M3FakeQuantize", "E5M2FakeQuantize",
          "Fp16FakeQuantize", "BF16FakeQuantize"}
     |-> <<"sophgo_mq.fake_quantize", n>>]

\* an unresolved (None / '') observer or fake-quantize slot
NoClass(name) == <<"", name>>

IsClass(c) == c[1] # ""

ChipProfile(w_symmetric_range) ==
  [qtype |-> "affine",
   w_qscheme |-> QuantizeScheme(TRUE, TRUE, FALSE, 8, w_symmetric_range),
   a_qscheme |-> QuantizeScheme(TRUE, FALSE, FALSE, 8, FALSE),
   default_weight_quantize |-> FakeQuantizeDict["LearnableFakeQuantize"],
   default_act_quantize |-> FakeQuantizeDict["LearnableFakeQuantize"],
   default_weight_observer |-> ObserverDict["MinMaxObserver"],
   default_act_observer |-> ObserverDict["EMAMinMaxObserver"]]

\* ParamsTable as the module is imported
ParamsTable0 ==
  [c \in {"BM1688", "BM1684X", "CV183X", "BM1690", "Academic"} |->
      ChipProfile(c = "CV183X")]

----------------------------------------------------------------------------
(* Outcomes of a resolution call                                           *)

NoErr == "ok"
ErrObserver == "AssertionError: Do not support observer name"
ErrFakeQuantize == "AssertionError: Do not support fakequantize name"
ErrBit == "AssertionError: unsupported data type"
ErrCombination == "AssertionError: unsupport this combination"
ErrUnbound == "UnboundLocalError"
ErrMode == "ValueError: invalid mode"
ErrKey == "KeyError"

\* an exception leaves the function: no config, the table as it is by then
Raise(err, table) == [err |-> err, qconfig |-> EmptyDict, table |-> table]

Return(qconfig, table) == [err |-> NoErr, qconfig |-> qconfig, table |-> table]

None == [kind |-> "None"]

Identity == [kind |-> "torch.nn.Identity"]

\* fakequantize.with_args(observer=..., **fakeq_params, **observer_params)
with_args(cls, observer, fakeq_params, observer_params) ==
  [kind |-> "with_args", cls |-> cls, observer |-> observer,
   fakeq_params |-> fakeq_params, observer_params |-> observer_params]

QConfig(activation, weight) == [activation |-> activation, weight |-> weight]

----------------------------------------------------------------------------
(* chipparams                                                              *)

chipparams(chip, extra_qparams, FakeQuantize) ==
  LET wo == extra_qparams.w_observer
      ao == extra_qparams.a_observer
      wf == extra_qparams.w_fakequantize
      af == extra_qparams.a_fakequantize
  IN IF Truthy(wo) /\ wo \notin DOMAIN ObserverDict THEN [err |-> ErrObserver]
     ELSE IF Truthy(ao) /\ ao \notin DOMAIN ObserverDict THEN [err |-> ErrObserver]
     ELSE IF Truthy(wf) /\ wf \notin DOMAIN FakeQuantize THEN [err |-> ErrFakeQuantize]
     ELSE IF Truthy(af) /\ af \notin DOMAIN FakeQuantize THEN [err |-> ErrFakeQuantize]
     ELSE [err |-> NoErr,
           w_observer |-> IF Truthy(wo) THEN ObserverDict[wo] ELSE NoClass(wo),
           a_observer |-> IF Truthy(ao) THEN ObserverDict[ao] ELSE NoClass(ao),
           w_fakequantize |-> IF Truthy(wf) THEN FakeQuantizeDict[wf] ELSE NoClass(wf),
           a_fakequantize |-> IF Truthy(af) THEN FakeQuantize[af] ELSE NoClass(af)]

\* faulty variant: BM1690 is left out of the 8-bit-only assert
qscheme_bit_asserts_no1690(chip, bit) ==
  /\ (chip = "BM1688" => (bit = 4 \/ bit = 8))
  /\ (chip = "BM1684X" => bit = 8)

\* the two asserts guarding an explicit w_qscheme / a_qscheme override
qscheme_bit_asserts(chip, bit) ==
  /\ (chip = "BM1688" => (bit = 4 \/ bit = 8))
  /\ ((chip = "BM1684X" \/ chip = "BM1690") => bit = 8)

----------------------------------------------------------------------------
(* createQConfig*                                                          *)

createQConfigForSophgo_activation(bit_num, a_fakequantize, a_observer) ==
  IF a_observer \notin DOMAIN ObserverDict THEN [err |-> ErrKey]
  ELSE IF a_fakequantize \notin DOMAIN FakeQuantizeDict THEN [err |-> ErrKey]
  ELSE [err |-> NoErr,
        qconfig |-> QConfig(
           with_args(FakeQuantizeDict[a_fakequantize], ObserverDict[a_observer],
                     EmptyDict,
                     to_observer_params(QuantizeScheme(TRUE, FALSE, FALSE, bit_num, FALSE))),
           None)]

\* faulty variant: the weight scheme is built without symmetric_range
createQConfigForSophgo_weight_plain_range(bit_num, w_fakequantize, w_observer) ==
  IF w_observer \notin DOMAIN ObserverDict THEN [err |-> ErrKey]
  ELSE IF w_fakequantize \notin DOMAIN FakeQuantizeDict THEN [err |-> ErrKey]
  ELSE [err |-> NoErr,
        qconfig |-> QConfig(
           Identity,
           with_args(FakeQuantizeDict[w_fakequantize], ObserverDict[w_observer],
                     EmptyDict,
                     to_observer_params(QuantizeScheme(TRUE, FALSE, FALSE, bit_num, FALSE))))]

createQConfigForSophgo_weight(bit_num, w_fakequantize, w_observer) ==
  IF w_observer \notin DOMAIN ObserverDict THEN [err |-> ErrKey]
  ELSE IF w_fakequantize \notin DOMAIN FakeQuantizeDict THEN [err |-> ErrKey]
  ELSE [err |-> NoErr,
        qconfig |-> QConfig(
           Identity,
           with_args(FakeQuantizeDict[w_fakequantize], ObserverDict[w_observer],
                     EmptyDict,
                     to_observer_params(QuantizeScheme(TRUE, FALSE, FALSE, bit_num, TRUE))))]

\* w_qscheme / a_qscheme: <<>> for None, <<d>> for a mapping d
createQConfig(w_fakequantize, a_fakequantize, w_observer, a_observer, w_qscheme, a_qscheme) ==
  LET ws == IF w_qscheme # <<>> THEN QuantizeSchemeFromDict(w_qscheme[1])
            ELSE QuantizeScheme(TRUE, TRUE, FALSE, 8, TRUE)
      as == IF a_qscheme # <<>> THEN QuantizeSchemeFromDict(a_qscheme[1])
            ELSE QuantizeScheme(TRUE, FALSE, FALSE, 8, FALSE)
  IN QConfig(
       with_args(FakeQuantizeDict[a_fakequantize], ObserverDict[a_observer],
                 EmptyDict, to_observer_params(as)),
       with_args(FakeQuantizeDict[w_fakequantize], ObserverDict[w_observer],
                 EmptyDict, to_observer_params(ws)))

\* faulty variant: every branch writes the 8-bit mapping
bulk_qscheme_always_8(bit) ==
  [bit |-> 8, symmetry |-> TRUE, per_channel |-> FALSE, pot_scale |-> FALSE]

\* the scheme mapping written out by each bulk branch
bulk_qscheme(bit) ==
  [bit |-> bit, symmetry |-> TRUE, per_channel |-> FALSE, pot_scale |-> FALSE]

int4_qconfig ==
  createQConfig("LearnableFakeQuantize", "LearnableFakeQuantize",
                "MinMaxObserver", "EMAMinMaxObserver",
                <<bulk_qscheme(4)>>, <<bulk_qscheme(4)>>)

int8_qconfig ==
  createQConfig("LearnableFakeQuantize", "LearnableFakeQuantize",
                "MinMaxObserver", "EMAMinMaxObserver",
                <<bulk_qscheme(8)>>, <<bulk_qscheme(8)>>)

f16_qconfig ==
  createQConfig("Fp16FakeQuantize", "Fp16FakeQuantize",
                "MinMaxObserver", "EMAMinMaxObserver",
                <<bulk_qscheme(16)>>, <<bulk_qscheme(16)>>)

----------------------------------------------------------------------------
(* get_qconfig_by_platform                                                 *)

\* the loop over extra_qparams['object_type'].items()
RECURSIVE object_type_entries(_, _)
object_type_entries(items, acc) ==
  IF items = <<>> THEN [err |-> NoErr, dict |-> acc]
  ELSE LET type_name == Head(items)[1]
           type_data == Head(items)[2]
           q == IF type_data.mode = "activation"
                  THEN createQConfigForSophgo_activation(
                         type_data.bit, type_data.afakequantize, type_data.aobserver)
                ELSE IF type_data.mode = "weight"
                  THEN createQConfigForSophgo_weight(
                         type_data.bit, type_data.wfakequantize, type_data.wobserver)
                ELSE [err |-> ErrMode]
       IN IF q.err # NoErr THEN [err |-> q.err, dict |-> acc]
          ELSE object_type_entries(Tail(items), DictSet(acc, type_name, q.qconfig))

\* the loop over extra_qparams['module_name'].items()
RECURSIVE module_name_entries(_, _)
module_name_entries(items, acc) ==
  IF items = <<>> THEN [err |-> NoErr, dict |-> acc]
  ELSE LET type_name == Head(items)[1]
           type_data == Head(items)[2]
           q == IF type_data.mode = "activation"
                  THEN createQConfigForSophgo_activation(
                         type_data.bit, type_data.afakequantize, type_data.aobserver)
                ELSE IF type_data.mode = "weight"
                  THEN createQConfigForSophgo_weight(
                         type_data.bit, type_data.wfakequantize, type_data.wobserver)
                ELSE [err |-> ErrMode]
       IN IF q.err # NoErr THEN [err |-> q.err, dict |-> acc]
          ELSE module_name_entries(Tail(items), DictSet(acc, type_name, q.qconfig))

\* faulty variant: a bulk name already present in module_name is left as it is
RECURSIVE bulk_entries_setdefault(_, _, _)
bulk_entries_setdefault(cfg, bulk_qconfig, acc) ==
  IF cfg = <<>> THEN acc
  ELSE bulk_entries_setdefault(Tail(cfg), bulk_qconfig,
         IF Head(cfg) \in DOMAIN acc THEN acc
         ELSE DictSet(acc, Head(cfg), bulk_qconfig))

\* for name in cfg: qconfig['module_name'][name] = bulk_qconfig
RECURSIVE bulk_entries(_, _, _)
bulk_entries(cfg, bulk_qconfig, acc) ==
  IF cfg = <<>> THEN acc
  ELSE bulk_entries(Tail(cfg), bulk_qconfig, DictSet(acc, Head(cfg), bulk_qconfig))

\* one bulk branch: if cfg: create qconfig['module_name'] when missing, then fill it
bulk_branch(qconfig, cfg, bulk_qconfig) ==
  IF cfg = <<>> THEN qconfig
  ELSE LET mn == IF "module_name" \in DOMAIN qconfig THEN qconfig["module_name"]
                 ELSE EmptyDict
       IN DictSet(qconfig, "module_name", bulk_entries(cfg, bulk_qconfig, mn))

\* faulty variant: the object_type entries are filed under the module_name key
apply_overrides_wrong_key(a_qconfig, w_qconfig, extra_qparams, table) ==
  LET q0 == DictSet(EmptyDict, "", QConfig(a_qconfig, w_qconfig))
      ot == object_type_entries(extra_qparams.object_type, EmptyDict)
      q1 == IF extra_qparams.object_type # <<>>
              THEN DictSet(q0, "module_name", ot.dict) ELSE q0
      mn == module_name_entries(extra_qparams.module_name,
              IF "module_name" \in DOMAIN q1 THEN q1["module_name"] ELSE EmptyDict)
      q2 == IF extra_qparams.module_name # <<>>
              THEN DictSet(q1, "module_name", mn.dict) ELSE q1
      q3 == bulk_branch(q2, extra_qparams.int4_op, int4_qconfig)
      q4 == bulk_branch(q3, extra_qparams.int8_op, int8_qconfig)
      q5 == bulk_branch(q4, extra_qparams.f16_op, f16_qconfig)
  IN IF ot.err # NoErr THEN Raise(ot.err, table)
     ELSE IF mn.err # NoErr THEN Raise(mn.err, table)
     ELSE Return(q5, table)

\* the default entry, then object_type, module_name, int4, int8, f16
apply_overrides(a_qconfig, w_qconfig, extra_qparams, table) ==
  LET q0 == DictSet(EmptyDict, "", QConfig(a_qconfig, w_qconfig))
      ot == object_type_entries(extra_qparams.object_type, EmptyDict)
      q1 == IF extra_qparams.object_type # <<>>
              THEN DictSet(q0, "object_type", ot.dict) ELSE q0
      mn == module_name_entries(extra_qparams.module_name, EmptyDict)
      q2 == IF extra_qparams.module_name # <<>>
              THEN DictSet(q1, "module_name", mn.dict) ELSE q1
      q3 == bulk_branch(q2, extra_qparams.int4_op, int4_qconfig)
      q4 == bulk_branch(q3, extra_qparams.int8_op, int8_qconfig)
      q5 == bulk_branch(q4, extra_qparams.f16_op, f16_qconfig)
  IN IF ot.err # NoErr THEN Raise(ot.err, table)
     ELSE IF mn.err # NoErr THEN Raise(mn.err, table)
     ELSE Return(q5, table)

\* faulty variant: every chip is handed the full registry
fakequantize_registry_full(chip) == FakeQuantizeDict

\* the registry handed to chipparams by the if/elif chain over the chip name
fakequantize_registry(chip) ==
  IF chip \in {"BM1688", "BM1684X", "CV183X", "BM1690"} THEN FakeQuantizeDict_Chip
  ELSE FakeQuantizeDict

\* faulty variant: the fallback to the chip default is forgotten
or_default_forgotten(resolved, default) == resolved

\* "if not x: x = chip_params[...]" for the four algorithm / observer slots
or_default(resolved, default) ==
  IF ~IsClass(resolved) THEN default ELSE resolved

\* faulty variant: the assert is dropped
combination_assert_dropped(quant_dict) == TRUE

\* the assert on quantmode and strategy
combination_assert(quant_dict) ==
  ~(quant_dict.quantmode = "weight_only" /\ quant_dict.strategy = "CNN")

\* faulty variant: the else branch falls back to the Academic profile
chip_dispatch_else_academic(chip, extra_qparams) ==
  LET key == IF chip \in {"BM1688", "BM1684X", "CV183X", "BM1690"} THEN chip
             ELSE "Academic"
  IN [bound |-> TRUE, profile |-> key,
      cp |-> chipparams(key, extra_qparams, fakequantize_registry(key))]

\* the if/elif chain over the chip name: a listed chip binds chip_params (the
\* ParamsTable entry named by profile) and the four algorithm / observer
\* locals; the else branch only logs, and the five locals stay unbound
chip_dispatch(chip, extra_qparams) ==
  IF chip \in {"BM1688", "BM1684X", "CV183X", "BM1690", "Academic"}
    THEN [bound |-> TRUE, profile |-> chip,
          cp |-> chipparams(chip, extra_qparams, fakequantize_registry(chip))]
  ELSE [bound |-> FALSE, profile |-> chip, cp |-> [err |-> NoErr]]

get_qconfig_by_platform(quant_dict, extra_qparams, table) ==
  LET chip == quant_dict.chip
      dispatch == chip_dispatch(chip, extra_qparams)
      bound == dispatch.bound
      profile == dispatch.profile
      cp == dispatch.cp
      w_over == extra_qparams.w_qscheme
      a_over == extra_qparams.a_qscheme
  IN
  IF cp.err # NoErr THEN Raise(cp.err, table)
  ELSE IF w_over = <<>> /\ ~bound THEN Raise(ErrUnbound, table)
  ELSE IF w_over # <<>> /\ ~qscheme_bit_asserts(chip, w_over[1].bit) THEN Raise(ErrBit, table)
  ELSE IF a_over = <<>> /\ ~bound THEN Raise(ErrUnbound, table)
  ELSE IF a_over # <<>> /\ ~qscheme_bit_asserts(chip, a_over[1].bit) THEN Raise(ErrBit, table)
  ELSE
    LET \* lines 214-219: kwargs.update on the scheme object itself; without an
        \* override that object is the one stored in the table
        table1 == IF w_over = <<>>
                    THEN [table EXCEPT ![profile].w_qscheme.kwargs =
                            DictUpdate(@, extra_qparams.w_observer_extra_args)]
                  ELSE table
        table2 == IF a_over = <<>>
                    THEN [table1 EXCEPT ![profile].a_qscheme.kwargs =
                            DictUpdate(@, extra_qparams.a_observer_extra_args)]
                  ELSE table1
        w_qscheme == IF w_over = <<>> THEN table2[profile].w_qscheme
                     ELSE [QuantizeSchemeFromDict(w_over[1]) EXCEPT !.kwargs =
                             DictUpdate(@, extra_qparams.w_observer_extra_args)]
        a_qscheme == IF a_over = <<>> THEN table2[profile].a_qscheme
                     ELSE [QuantizeSchemeFromDict(a_over[1]) EXCEPT !.kwargs =
                             DictUpdate(@, extra_qparams.a_observer_extra_args)]
    IN
    IF ~bound THEN Raise(ErrUnbound, table2)
    ELSE
      LET chip_params == table2[profile]
          w_fakequantize == or_default(cp.w_fakequantize,
                                       chip_params.default_weight_quantize)
          a_fakequantize == or_default(cp.a_fakequantize,
                                       chip_params.default_act_quantize)
          w_observer == or_default(cp.w_observer, chip_params.default_weight_observer)
          a_observer == or_default(cp.a_observer, chip_params.default_act_observer)
          w_qconfig == with_args(w_fakequantize, w_observer,
                                 extra_qparams.w_fakeq_params,
                                 to_observer_params(w_qscheme))
          a_qconfig == with_args(a_fakequantize, a_observer,
                                 extra_qparams.a_fakeq_params,
                                 to_observer_params(a_qscheme))
      IN IF ~combination_assert(quant_dict) THEN Raise(ErrCombination, table2)
         ELSE apply_overrides(a_qconfig, w_qconfig, extra_qparams, table2)

----------------------------------------------------------------------------
(* Requests tried against the resolver                                     *)

MaxCalls == 2

\* "BM1684" stands for any identifier not listed in lines 178-187
Chips == {"BM1688", "BM1684X", "CV183X", "BM1690", "Academic", "BM1684"}

QuantDicts ==
  {[chip |-> c, quantmode |-> m[1], strategy |-> m[2]] :
     c \in Chips,
     m \in {<<"weight_activation", "CNN">>, <<"weight_activation", "Transformer">>,
            <<"weight_only", "CNN">>, <<"weight_only", "Transformer">>,
            <<"activation_only", "Transformer">>}}

EmptyOverrides ==
  [w_observer |-> NONE, a_observer |-> NONE,
   w_fakequantize |-> NONE, a_fakequantize |-> NONE,
   w_qscheme |-> <<>>, a_qscheme |-> <<>>,
   w_observer_extra_args |-> EmptyDict, a_observer_extra_args |-> EmptyDict,
   w_fakeq_params |-> EmptyDict, a_fakeq_params |-> EmptyDict,
   object_type |-> <<>>, module_name |-> <<>>,
   int4_op |-> <<>>, int8_op |-> <<>>, f16_op |-> <<>>]

\* <<observer name, fake-quantize name>> choices for one side; HistogramObserver
\* and LSQFakeQuantize are in no registry, NNIE / GPTQ only in the full one
WNameChoices ==
  {<<"KLDObserver", NONE>>, <<"HistogramObserver", NONE>>,
   <<NONE, "FixedFakeQuantize">>, <<NONE, "NNIEFakeQuantize">>,
   <<NONE, "LSQFakeQuantize">>, <<"KLDObserver", "FixedFakeQuantize">>,
   <<"", NONE>>, <<NONE, "">>}

ANameChoices ==
  {<<"MSEObserver", NONE>>, <<"HistogramObserver", NONE>>,
   <<NONE, "DSQFakeQuantize">>, <<NONE, "GPTQFakeQuantize">>,
   <<NONE, "LSQFakeQuantize">>, <<"MSEObserver", "DSQFakeQuantize">>}

NamePairs ==
  {<<<<NONE, NONE>>, <<NONE, NONE>>>>}
  \cup (WNameChoices \X {<<NONE, NONE>>}) \cup ({<<NONE, NONE>>} \X ANameChoices)
  \cup ({<<"KLDObserver", "FixedFakeQuantize">>, <<"HistogramObserver", NONE>>,
         <<NONE, "NNIEFakeQuantize">>}
        \X {<<"MSEObserver", "DSQFakeQuantize">>, <<NONE, "GPTQFakeQuantize">>})

NameOverrides ==
  {[EmptyOverrides EXCEPT !.w_observer = n[1][1], !.w_fakequantize = n[1][2],
                          !.a_observer = n[2][1], !.a_fakequantize = n[2][2]] :
     n \in NamePairs}

SchemeDict(bit) ==
  [bit |-> bit, symmetry |-> TRUE, per_channel |-> FALSE, pot_scale |-> FALSE]

SchemeChoices == {<<>>, <<SchemeDict(4)>>, <<SchemeDict(8)>>, <<SchemeDict(16)>>}

ExtraArgs == [k \in {"ema_ratio"} |-> 9]

SchemeOverrides ==
  {[EmptyOverrides EXCEPT !.w_qscheme = w, !.a_qscheme = a] :
     w \in SchemeChoices, a \in SchemeChoices}
  \cup
  {[EmptyOverrides EXCEPT !.w_observer_extra_args = x[1],
                          !.a_observer_extra_args = x[2]] :
     x \in {<<ExtraArgs, EmptyDict>>, <<EmptyDict, ExtraArgs>>, <<ExtraArgs, ExtraArgs>>}}
  \cup
  {[EmptyOverrides EXCEPT !.w_qscheme = s[1], !.a_qscheme = s[2],
                          !.w_observer_extra_args = ExtraArgs,
                          !.a_observer_extra_args = ExtraArgs] :
     s \in {<<<<SchemeDict(8)>>, <<>>>>, <<<<>>, <<SchemeDict(4)>>>>,
            <<<<SchemeDict(16)>>, <<>>>>, <<<<>>, <<SchemeDict(16)>>>>,
            <<<<SchemeDict(4)>>, <<SchemeDict(4)>>>>}}

\* overrides on several axes at once
MixedOverrides ==
  {[EmptyOverrides EXCEPT !.w_observer = wo, !.a_fakequantize = af,
                          !.w_qscheme = w, !.a_qscheme = <<SchemeDict(8)>>,
                          !.w_fakeq_params = [k \in {"use_grad_scaling"} |-> 1]] :
     wo \in {"KLDObserver", "HistogramObserver"},
     af \in {NONE, "GPTQFakeQuantize"},
     w \in {<<>>, <<SchemeDict(4)>>}}

Entry(mode, bit, fq, ob) ==
  [mode |-> mode, bit |-> bit,
   afakequantize |-> IF mode = "weight" THEN NONE ELSE fq,
   aobserver |-> IF mode = "weight" THEN NONE ELSE ob,
   wfakequantize |-> IF mode = "weight" THEN fq ELSE NONE,
   wobserver |-> IF mode = "weight" THEN ob ELSE NONE]

Act8 == Entry("activation", 8, "LearnableFakeQuantize", "EMAMinMaxObserver")
Wgt4 == Entry("weight", 4, "FixedFakeQuantize", "MinMaxObserver")
ActNNIE == Entry("activation", 8, "NNIEFakeQuantize", "MinMaxObserver")
BadMode == Entry("both", 8, "LearnableFakeQuantize", "MinMaxObserver")
NoMode == Entry(NONE, 8, "LearnableFakeQuantize", "MinMaxObserver")
NoObserver == Entry("activation", 8, "LearnableFakeQuantize", NONE)

\* an iterated dict with keys k1 (and k2)
EntryDicts(k1, k2) ==
  {<<<<k1, e>>>> : e \in {Act8, Wgt4, ActNNIE, BadMode, NoMode, NoObserver}}
  \cup {<<<<k1, Act8>>, <<k2, Wgt4>>>>, <<<<k1, Wgt4>>, <<k2, NoObserver>>>>,
        <<<<k1, BadMode>>, <<k2, NoObserver>>>>, <<<<k1, NoObserver>>, <<k2, BadMode>>>>}

ObjectTypeOverrides ==
  {[EmptyOverrides EXCEPT !.object_type = ot] :
     ot \in EntryDicts("torch.nn.Linear", "torch.add")}

BulkChoices ==
  {<<<<>>, <<>>, <<>>>>, <<<<"layer1">>, <<>>, <<>>>>,
   <<<<>>, <<"layer1", "layer3">>, <<>>>>, <<<<>>, <<>>, <<"layer2">>>>,
   <<<<"layer1">>, <<"layer1", "layer3">>, <<>>>>,
   <<<<"layer1">>, <<"layer1", "layer3">>, <<"layer3">>>>}

ModuleOverrides ==
  {[EmptyOverrides EXCEPT !.module_name = mn, !.int4_op = b[1], !.int8_op = b[2],
                          !.f16_op = b[3]] :
     mn \in {<<>>, <<<<"layer1", Act8>>>>, <<<<"layer1", Wgt4>>, <<"layer2", Act8>>>>,
             <<<<"layer1", BadMode>>>>},
     b \in BulkChoices}

AllOverrides ==
  {[EmptyOverrides EXCEPT !.object_type = <<<<"torch.nn.Linear", Wgt4>>>>,
                          !.module_name = <<<<"layer1", Act8>>>>,
                          !.int8_op = <<"layer1">>,
                          !.w_qscheme = w,
                          !.a_qscheme = a,
                          !.a_observer_extra_args = ExtraArgs,
                          !.w_fakequantize = wf] :
     w \in {<<>>, <<SchemeDict(4)>>},
     a \in {<<>>, <<SchemeDict(8)>>},
     wf \in {NONE, "NNIEFakeQuantize"}}

Overrides ==
  NameOverrides \cup SchemeOverrides \cup MixedOverrides
  \cup ObjectTypeOverrides \cup ModuleOverrides \cup AllOverrides

Requests ==
  {[quant_dict |-> q, extra_qparams |-> e] : q \in QuantDicts, e \in Overrides}

----------------------------------------------------------------------------
(* The resolver as a state machine                                         *)

InitConfig ==
  /\ ParamsTable = ParamsTable0
  /\ pc = "idle"
  /\ request = <<>>
  /\ result = <<>>
  /\ calls = 0

InitNoGraph ==
  /\ model = EmptyDict
  /\ traced = <<>>
  /\ graph = <<>>
  /\ modules = EmptyDict
  /\ dup_modules = EmptyDict
  /\ constant_dict = EmptyDict
  /\ gpc = "none"
  /\ copies = 0

InitNoPrepare ==
  /\ custom_config = <<>>
  /\ swapped = FALSE
  /\ preserve_attr_dict = EmptyDict
  /\ prepared = <<>>
  /\ trail = <<>>

Init == InitConfig /\ InitNoGraph /\ InitNoPrepare

\* one call of get_qconfig_by_platform(quant_dict, extra_qparams)
Call(req) ==
  /\ pc = "idle"
  /\ calls < MaxCalls
  /\ LET r == get_qconfig_by_platform(req.quant_dict, req.extra_qparams, ParamsTable)
     IN /\ ParamsTable' = r.table
        /\ result' = <<[err |-> r.err, qconfig |-> r.qconfig]>>
  /\ request' = <<req>>
  /\ pc' = "returned"
  /\ calls' = calls + 1
  /\ UNCHANGED graphVars
  /\ UNCHANGED prepVars

\* the caller is done with the returned config (or the exception)
Discard ==
  /\ pc = "returned"
  /\ pc' = "idle"
  /\ request' = <<>>
  /\ result' = <<>>
  /\ UNCHANGED <<ParamsTable, calls>>
  /\ UNCHANGED graphVars
  /\ UNCHANGED prepVars

Next == (\E req \in Requests : Call(req)) \/ Discard

Spec == Init /\ [][Next]_vars

----------------------------------------------------------------------------
(* Strings, the traced model and its graph                                 *)

MaxNodes == 4

Digits == <<"0", "1", "2", "3", "4", "5", "6", "7", "8", "9">>

\* str(n) for n >= 0
RECURSIVE str(_)
str(n) ==
  IF n < 10 THEN <<Digits[n + 1]>>
  ELSE str(n \div 10) \o <<Digits[(n % 10) + 1]>>

\* attrs.split('.')
RECURSIVE split_dots(_, _, _)
split_dots(chars, i, cur) ==
  IF i > Len(chars) THEN <<cur>>
  ELSE IF chars[i] = "." THEN <<cur>> \o split_dots(chars, i + 1, <<>>)
  ELSE split_dots(chars, i + 1, Append(cur, chars[i]))

\* '.'.join(segments), the qualified name named_modules() gives a submodule
RECURSIVE join_dots(_)
join_dots(segments) ==
  IF segments = <<>> THEN <<>>
  ELSE IF Len(segments) = 1 THEN segments[1]
  ELSE segments[1] \o <<".">> \o join_dots(Tail(segments))

Name_a == <<"a">>
Name_b == <<"b">>
Name_w == <<"w">>
Name_x == <<"x">>
Name_a_dup1 == <<"a", "_", "d", "u", "p", "1">>

Module(path) ==
  [kind |-> "module", id |-> <<"model", path>>, state |-> <<"parameters of", path>>]

Tensor(path) == [kind |-> "tensor", id |-> <<"model", path>>]

\* a model is its attribute tree: attribute path (sequence of segments) -> value
PlainModel ==
  [p \in {<<>>, <<Name_a>>, <<Name_b>>} |-> Module(p)]
  @@ [p \in {<<Name_w>>, <<Name_a, Name_w>>} |-> Tensor(p)]

\* the same model with one more submodule, whose name ends in _dup1
ModelWithDupName == PlainModel @@ [p \in {<<Name_a_dup1>>} |-> Module(p)]

Models == {PlainModel, ModelWithDupName}

Node(op, target) == [op |-> op, target |-> target]

\* The nodes a graph may hold.  duplicate_reused_nodes and
\* prepare_constant_dict take any torch.fx.Graph, so targets the model does
\* not have (a_dup1 on PlainModel, a.x) are kept: they are the KeyError and
\* AttributeError paths of lines 522 and 532.
NodeChoices ==
  {Node("call_module", t) : t \in {Name_a, Name_b, Name_a_dup1}}
  \cup {Node("get_attr", t) : t \in {Name_w, Name_a \o <<".">> \o Name_w,
                                     Name_a \o <<".">> \o Name_x}}
  \cup {Node("call_method", Name_a)}

Graphs == UNION {[1..n -> NodeChoices] : n \in 0..MaxNodes}

----------------------------------------------------------------------------
(* duplicate_reused_nodes                                                  *)

_dup_prefix == <<"_", "d", "u", "p">>

\* copy.deepcopy: same contents, a new object
deepcopy(obj, serial) == [obj EXCEPT !.id = <<"deepcopy", serial>>]

\* faulty variant: the occurrence index is left out of the new name
dup_target_no_index(target, idx) == target \o _dup_prefix

\* node.target += _dup_prefix + str(idx)
dup_target(target, idx) == target \o _dup_prefix \o str(idx)

\* the first loop: target -> nodes calling it, keys in order of first use;
\* a node is its position in the graph
RECURSIVE target_dict_from(_, _, _)
target_dict_from(nodes, i, acc) ==
  IF i > Len(nodes) THEN acc
  ELSE IF nodes[i].op # "call_module" THEN target_dict_from(nodes, i + 1, acc)
  ELSE LET hits == {k \in DOMAIN acc : acc[k].key = nodes[i].target}
       IN IF hits = {}
            THEN target_dict_from(nodes, i + 1,
                   Append(acc, [key |-> nodes[i].target, nodes |-> <<i>>]))
          ELSE target_dict_from(nodes, i + 1,
                 [acc EXCEPT ![CHOOSE k \in hits : TRUE].nodes = Append(@, i)])

\* the inner loop over enumerate(target_dict[key]), from idx on
RECURSIVE retarget_from(_, _, _, _)
retarget_from(st, nodes, idx, mods) ==
  IF idx >= Len(nodes) THEN st
  ELSE IF idx = 0 THEN retarget_from(st, nodes, idx + 1, mods)
  ELSE LET n == nodes[idx + 1]
           target == st.graph[n].target
       IN IF target \notin DOMAIN mods THEN [st EXCEPT !.err = ErrKey]
          ELSE LET module == deepcopy(mods[target], st.copies + 1)
                   renamed == dup_target(target, idx)
               IN retarget_from(
                    [graph |-> [st.graph EXCEPT ![n].target = renamed],
                     dup_modules |-> DictSet(st.dup_modules, renamed, module),
                     copies |-> st.copies + 1,
                     err |-> NoErr],
                    nodes, idx + 1, mods)

\* the outer loop over the keys of target_dict, from key number k on
RECURSIVE rewrite_from(_, _, _, _)
rewrite_from(st, target_dict, k, mods) ==
  IF k > Len(target_dict) \/ st.err # NoErr THEN st
  ELSE rewrite_from(
         IF Len(target_dict[k].nodes) > 1
           THEN retarget_from(st, target_dict[k].nodes, 0, mods)
         ELSE st,
         target_dict, k + 1, mods)

\* graph.lint() is given no owning module, so it does not look targets up;
\* the result is [graph, dup_modules, copies, err], the graph rewritten in place
duplicate_reused_nodes(g, mods, serial) ==
  rewrite_from([graph |-> g, dup_modules |-> EmptyDict, copies |-> serial, err |-> NoErr],
               target_dict_from(g, 1, <<>>), 1, mods)

----------------------------------------------------------------------------
(* prepare_constant_dict                                                   *)

\* _get_attrs: getattr segment by segment from the model root
RECURSIVE _get_attrs(_, _, _)
_get_attrs(tree, at, attrs) ==
  IF attrs = <<>> THEN [err |-> NoErr, value |-> tree[at]]
  ELSE IF Append(at, Head(attrs)) \notin DOMAIN tree THEN [err |-> "AttributeError"]
  ELSE _get_attrs(tree, Append(at, Head(attrs)), Tail(attrs))

RECURSIVE constants_from(_, _, _, _)
constants_from(g, i, tree, acc) ==
  IF i > Len(g) THEN [err |-> NoErr, dict |-> acc]
  ELSE IF g[i].op # "get_attr" THEN constants_from(g, i + 1, tree, acc)
  ELSE LET v == _get_attrs(tree, <<>>, split_dots(g[i].target, 1, <<>>))
       IN IF v.err # NoErr THEN [err |-> v.err, dict |-> acc]
          ELSE constants_from(g, i + 1, tree, DictSet(acc, g[i].target, v.value))

\* faulty variant: every node is treated as an attribute-get node
prepare_constant_dict_all_nodes(g, tree) ==
  constants_from([i \in DOMAIN g |-> [g[i] EXCEPT !.op = "get_attr"]], 1, tree, EmptyDict)

\* the result is [err, dict]; dict is the table returned when err = NoErr
prepare_constant_dict(g, tree) == constants_from(g, 1, tree, EmptyDict)

----------------------------------------------------------------------------
(* prepare_by_platform: from the traced graph to the module lookup         *)

\* dict(model.named_modules())
named_modules(tree) ==
  LET paths == {p \in DOMAIN tree : tree[p].kind = "module"}
  IN [n \in {join_dots(p) : p \in paths} |->
        tree[CHOOSE p \in paths : join_dots(p) = n]]

\* faulty variant: the clones are not merged in
merged_lookup_without_clones(mods, duplicated_modules, constant_nodes) ==
  DictUpdate(mods, constant_nodes)

\* modules.update(duplicated_modules); modules.update(constant_nodes)
merged_lookup(mods, duplicated_modules, constant_nodes) ==
  DictUpdate(DictUpdate(mods, duplicated_modules), constant_nodes)

----------------------------------------------------------------------------
(* The graph preparation as a state machine                                *)

\* tracer.trace(model, concrete_args) has returned some graph of some model
InitGraph ==
  /\ InitConfig
  /\ InitNoPrepare
  /\ model \in Models
  /\ traced \in Graphs
  /\ graph = traced
  /\ modules = EmptyDict
  /\ dup_modules = EmptyDict
  /\ constant_dict = EmptyDict
  /\ gpc = "traced"
  /\ copies = 0

NamedModules ==
  /\ gpc = "traced"
  /\ modules' = named_modules(model)
  /\ gpc' = "named_modules"
  /\ UNCHANGED <<model, traced, graph, dup_modules, constant_dict, copies>>
  /\ UNCHANGED cfgVars
  /\ UNCHANGED prepVars

Deduplicate ==
  /\ gpc = "named_modules"
  /\ LET r == duplicate_reused_nodes(graph, modules, copies)
     IN /\ graph' = r.graph
        /\ dup_modules' = r.dup_modules
        /\ copies' = r.copies
        /\ gpc' = IF r.err = NoErr THEN "deduplicated" ELSE r.err
        /\ trail' = IF r.err = NoErr THEN Append(trail, "deduplicate") ELSE trail
  /\ UNCHANGED <<model, traced, modules, constant_dict>>
  /\ UNCHANGED cfgVars
  /\ UNCHANGED <<custom_config, swapped, preserve_attr_dict, prepared>>

ExtractConstants ==
  /\ gpc = "deduplicated"
  /\ LET r == prepare_constant_dict(graph, model)
     IN \* when getattr raises, constant_nodes is never bound
        /\ constant_dict' = IF r.err = NoErr THEN r.dict ELSE constant_dict
        /\ gpc' = IF r.err = NoErr THEN "constants" ELSE r.err
        /\ trail' = IF r.err = NoErr THEN Append(trail, "constants") ELSE trail
  /\ UNCHANGED <<model, traced, graph, modules, dup_modules, copies>>
  /\ UNCHANGED cfgVars
  /\ UNCHANGED <<custom_config, swapped, preserve_attr_dict, prepared>>

MergeLookup ==
  /\ gpc = "constants"
  /\ modules' = merged_lookup(modules, dup_modules, constant_dict)
  /\ gpc' = "merged"
  /\ UNCHANGED <<model, traced, graph, dup_modules, constant_dict, copies>>
  /\ UNCHANGED cfgVars
  /\ UNCHANGED prepVars

NextGraph == NamedModules \/ Deduplicate \/ ExtractConstants \/ MergeLookup

SpecGraph == InitGraph /\ [][NextGraph]_vars

----------------------------------------------------------------------------
(* prepare_by_platform: attributes kept across the trace                   *)

MaxTracedNodes == 2

\* attribute names: f is a method the class defines; g is defined by the
\* class and replaced on the instance by another bound method; h is a bound
\* method set on the instance only; t holds a plain value
Attr_f == <<"f">>
Attr_g == <<"g">>
Attr_h == <<"h">>
Attr_t == <<"t">>

Value(v) == [kind |-> "value", v |-> v]

\* types.MethodType(func, self): a bound method
Method(func, self) == [kind |-> "method", func |-> func, self |-> self]

\* type(obj) of the module at a path of the model
TypeOf(path) == <<"class of", path>>

\* the functions getattr(_type, attr_name) finds on the classes
ClassFunctions ==
  {<<TypeOf(<<>>), Attr_f>>, <<TypeOf(<<>>), Attr_g>>, <<TypeOf(<<Name_a>>), Attr_f>>}

\* the model of PlainModel with attributes that are not part of forward
ModelWithAttrs ==
  PlainModel
  @@ (<<Attr_f>> :> Method(<<TypeOf(<<>>), Attr_f>>, Module(<<>>).id))
  @@ (<<Attr_g>> :> Method(<<<<"set on the instance", <<>>>>, Attr_g>>, Module(<<>>).id))
  @@ (<<Attr_h>> :> Method(<<<<"set on the instance", <<>>>>, Attr_h>>, Module(<<>>).id))
  @@ (<<Attr_t>> :> Value("tag"))
  @@ (<<Name_a, Attr_f>> :> Method(<<TypeOf(<<Name_a>>), Attr_f>>, Module(<<Name_a>>).id))
  @@ (<<Name_b, Attr_t>> :> Value("tag of b"))

\* values of prepare_custom_config_dict['preserve_attr'], iterated in order:
\* <<submodule name, attribute names>>; the root is named by ''
PreserveAttrChoices ==
  {<< <<<<>>, <<Attr_f>>>> >>,
   << <<<<>>, <<Attr_f, Attr_t>>>>, <<Name_a, <<Attr_f>>>> >>,
   << <<<<>>, <<Attr_g>>>> >>,
   << <<<<>>, <<Attr_h>>>> >>,
   << <<Name_b, <<Attr_t>>>> >>,
   << <<<<>>, <<Name_x>>>> >>}

PrepareQuantDicts ==
  {[chip |-> "BM1688", quantmode |-> "weight_activation", strategy |-> "CNN"],
   [chip |-> "Academic", quantmode |-> "weight_activation", strategy |-> "Transformer"],
   [chip |-> "BM1688", quantmode |-> "weight_only", strategy |-> "CNN"],
   [chip |-> "BM1684", quantmode |-> "weight_activation", strategy |-> "CNN"]}

\* prepare_custom_config_dict and input_shape_dict; preserve_attr is <<>> when
\* the key is absent; input_shape_dict tells whether shapes were given
CustomConfigs ==
  [quant_dict : PrepareQuantDicts,
   extra_qconfig_dict : {EmptyOverrides, [EmptyOverrides EXCEPT !.int8_op = <<"layer1">>]},
   preserve_attr : {<<>>} \cup {<<d>> : d \in PreserveAttrChoices},
   input_shape_dict : BOOLEAN]

\* graphs the tracer can give for a model: every target exists on the model
TracedGraphs(tree) ==
  {g \in UNION {[1..n -> NodeChoices] : n \in 0..MaxTracedNodes} :
     \A i \in DOMAIN g :
        /\ (g[i].op = "call_module" => g[i].target \in DOMAIN named_modules(tree))
        /\ (g[i].op = "get_attr" =>
              _get_attrs(tree, <<>>, split_dots(g[i].target, 1, <<>>)).err = NoErr)}

\* the module trees a quantizer may hand back: the prepared model keeps the
\* submodules its graph uses
PreparedModels ==
  {[p \in paths |-> [kind |-> "module", id |-> <<"prepared", p>>]] :
     paths \in {{<<>>, <<Name_a>>, <<Name_b>>}, {<<>>, <<Name_a>>}}}

\* cur_module = model; if submodule_name != "": cur_module = getattr(model, submodule_name)
cur_module_path(submodule_name) ==
  IF submodule_name = <<>> THEN <<>> ELSE <<submodule_name>>

\* for attr in preserve_attr_list: preserve_attr_dict[submodule_name][attr] = getattr(...)
RECURSIVE snapshot_attrs(_, _, _, _)
snapshot_attrs(tree, at, attrs, acc) ==
  IF attrs = <<>> THEN [err |-> NoErr, dict |-> acc]
  ELSE IF Append(at, Head(attrs)) \notin DOMAIN tree
    THEN [err |-> "AttributeError", dict |-> acc]
  ELSE snapshot_attrs(tree, at, Tail(attrs),
                      DictSet(acc, Head(attrs), tree[Append(at, Head(attrs))]))

\* the loop over prepare_custom_config_dict['preserve_attr'] before the trace
RECURSIVE snapshot_from(_, _, _)
snapshot_from(tree, items, acc) ==
  IF items = <<>> THEN [err |-> NoErr, dict |-> acc]
  ELSE LET submodule_name == Head(items)[1]
           at == cur_module_path(submodule_name)
       IN IF at \notin DOMAIN tree THEN [err |-> "AttributeError", dict |-> acc]
          ELSE LET r == snapshot_attrs(tree, at, Head(items)[2], EmptyDict)
               IN IF r.err # NoErr
                    THEN [err |-> r.err, dict |-> DictSet(acc, submodule_name, r.dict)]
                  ELSE snapshot_from(tree, Tail(items),
                                     DictSet(acc, submodule_name, r.dict))

\* if inspect.ismethod(_attr): _attr = types.MethodType(getattr(_type, attr_name), cur_module)
rebind(_attr, _type, attr_name, cur_module) ==
  IF _attr.kind # "method" THEN [err |-> NoErr, value |-> _attr]
  ELSE IF <<_type, attr_name>> \notin ClassFunctions THEN [err |-> "AttributeError"]
  ELSE [err |-> NoErr, value |-> Method(<<_type, attr_name>>, cur_module.id)]

\* for attr_name in preserve_attr_list: ... setattr(cur_module, attr_name, _attr)
RECURSIVE restore_attrs(_, _, _, _, _)
restore_attrs(tree, at, _type, attrs, saved) ==
  IF attrs = <<>> THEN [err |-> NoErr, tree |-> tree]
  ELSE LET r == rebind(saved[Head(attrs)], _type, Head(attrs), tree[at])
       IN IF r.err # NoErr THEN [err |-> r.err, tree |-> tree]
          ELSE restore_attrs(DictSet(tree, Append(at, Head(attrs)), r.value),
                             at, _type, Tail(attrs), saved)

\* the loop over prepare_custom_config_dict['preserve_attr'] after the quantizer
RECURSIVE restore_from(_, _, _)
restore_from(tree, items, saved) ==
  IF items = <<>> THEN [err |-> NoErr, tree |-> tree]
  ELSE LET submodule_name == Head(items)[1]
           at == cur_module_path(submodule_name)
       IN IF at \notin DOMAIN tree THEN [err |-> "AttributeError", tree |-> tree]
          ELSE LET r == restore_attrs(tree, at, TypeOf(at), Head(items)[2],
                                      saved[submodule_name])
               IN IF r.err # NoErr THEN r
                  ELSE restore_from(r.tree, Tail(items), saved)

----------------------------------------------------------------------------
(* prepare_by_platform as a state machine                                  *)

InitPrepare ==
  /\ InitConfig
  /\ model = ModelWithAttrs
  /\ traced = <<>>
  /\ graph = <<>>
  /\ modules = EmptyDict
  /\ dup_modules = EmptyDict
  /\ constant_dict = EmptyDict
  /\ gpc = "start"
  /\ copies = 0
  /\ custom_config \in CustomConfigs
  /\ swapped = FALSE
  /\ preserve_attr_dict = EmptyDict
  /\ prepared = <<>>
  /\ trail = <<>>

\* qconfig = get_qconfig_by_platform(quant_dict, extra_qconfig_dict)
ResolveConfig ==
  /\ gpc = "start"
  /\ LET r == get_qconfig_by_platform(custom_config.quant_dict,
                                      custom_config.extra_qconfig_dict, ParamsTable)
     IN /\ ParamsTable' = r.table
        /\ result' = <<[err |-> r.err, qconfig |-> r.qconfig]>>
        /\ gpc' = IF r.err = NoErr THEN "resolved" ELSE r.err
        /\ trail' = IF r.err = NoErr THEN Append(trail, "resolve") ELSE trail
  /\ request' = <<[quant_dict |-> custom_config.quant_dict,
                   extra_qparams |-> custom_config.extra_qconfig_dict]>>
  /\ calls' = calls + 1
  /\ UNCHANGED pc
  /\ UNCHANGED graphVars_but_gpc
  /\ UNCHANGED <<custom_config, swapped, preserve_attr_dict, prepared>>

\* faulty variant: the swap does not wait for the configuration
SwapFunctionalModules_at_start ==
  /\ gpc \in {"start", "resolved"}
  /\ swapped' = TRUE
  /\ gpc' = "swapped"
  /\ trail' = Append(trail, "swap")
  /\ UNCHANGED cfgVars
  /\ UNCHANGED graphVars_but_gpc
  /\ UNCHANGED <<custom_config, preserve_attr_dict, prepared>>

\* _swap_ff_with_fxff(model)
SwapFunctionalModules ==
  /\ gpc = "resolved"
  /\ swapped' = TRUE
  /\ gpc' = "swapped"
  /\ trail' = Append(trail, "swap")
  /\ UNCHANGED cfgVars
  /\ UNCHANGED graphVars_but_gpc
  /\ UNCHANGED <<custom_config, preserve_attr_dict, prepared>>

SnapshotAttrs ==
  /\ gpc = "swapped"
  /\ LET r == IF custom_config.preserve_attr = <<>>
                THEN [err |-> NoErr, dict |-> EmptyDict]
              ELSE snapshot_from(model, custom_config.preserve_attr[1], EmptyDict)
     IN /\ preserve_attr_dict' = r.dict
        /\ gpc' = IF r.err = NoErr THEN "snapshot" ELSE r.err
        /\ trail' = IF r.err = NoErr THEN Append(trail, "snapshot") ELSE trail
  /\ UNCHANGED cfgVars
  /\ UNCHANGED graphVars_but_gpc
  /\ UNCHANGED <<custom_config, swapped, prepared>>

\* graph = tracer.trace(model, concrete_args)
Trace ==
  /\ gpc = "snapshot"
  /\ \E g \in TracedGraphs(model) :
        /\ traced' = g
        /\ graph' = g
  /\ gpc' = "traced"
  /\ trail' = Append(trail, "trace")
  /\ UNCHANGED cfgVars
  /\ UNCHANGED <<model, modules, dup_modules, constant_dict, copies>>
  /\ UNCHANGED <<custom_config, swapped, preserve_attr_dict, prepared>>

\* the tracer raises
TraceFails ==
  /\ gpc = "snapshot"
  /\ gpc' = "TraceError"
  /\ UNCHANGED cfgVars
  /\ UNCHANGED graphVars_but_gpc
  /\ UNCHANGED prepVars

\* graph_module = GraphModule(modules, graph, name)
BuildGraphModule ==
  /\ gpc = "merged"
  /\ gpc' = "graph_module"
  /\ trail' = Append(trail, "graph_module")
  /\ UNCHANGED cfgVars
  /\ UNCHANGED graphVars_but_gpc
  /\ UNCHANGED <<custom_config, swapped, preserve_attr_dict, prepared>>

\* if input_shape_dict is not None: try: ... propagate ... except: print(...)
ShapeProp ==
  /\ gpc = "graph_module"
  /\ custom_config.input_shape_dict
  /\ gpc' = "shapes"
  /\ \E outcome \in {"shape_prop", "shape_prop_failed"} : trail' = Append(trail, outcome)
  /\ UNCHANGED cfgVars
  /\ UNCHANGED graphVars_but_gpc
  /\ UNCHANGED <<custom_config, swapped, preserve_attr_dict, prepared>>

\* the position from which the quantizer is constructed
ReadyForQuantizer ==
  \/ gpc = "shapes"
  \/ (gpc = "graph_module" /\ ~custom_config.input_shape_dict)

\* quantizer = DEFAULT_MODEL_QUANTIZER[chip](...); prepare_swint for Academic,
\* prepare for every other chip
Quantize ==
  /\ ReadyForQuantizer
  /\ \E tree \in PreparedModels :
        prepared' = <<[tree |-> tree,
                       entry |-> IF custom_config.quant_dict.chip = "Academic"
                                   THEN "prepare_swint" ELSE "prepare",
                       qconfig |-> result[1].qconfig]>>
  /\ gpc' = "quantized"
  /\ trail' = Append(trail, "quantizer")
  /\ UNCHANGED cfgVars
  /\ UNCHANGED graphVars_but_gpc
  /\ UNCHANGED <<custom_config, swapped, preserve_attr_dict>>

\* the quantizer raises
QuantizeFails ==
  /\ ReadyForQuantizer
  /\ gpc' = "QuantizerError"
  /\ UNCHANGED cfgVars
  /\ UNCHANGED graphVars_but_gpc
  /\ UNCHANGED prepVars

\* the restore loop, then return prepared
RestoreAttrs ==
  /\ gpc = "quantized"
  /\ LET r == IF custom_config.preserve_attr = <<>>
                THEN [err |-> NoErr, tree |-> prepared[1].tree]
              ELSE restore_from(prepared[1].tree, custom_config.preserve_attr[1],
                                preserve_attr_dict)
     IN /\ prepared' = <<[prepared[1] EXCEPT !.tree = r.tree]>>
        /\ gpc' = IF r.err = NoErr THEN "returned" ELSE r.err
        /\ trail' = IF r.err = NoErr THEN Append(trail, "restore") ELSE trail
  /\ UNCHANGED cfgVars
  /\ UNCHANGED graphVars_but_gpc
  /\ UNCHANGED <<custom_config, swapped, preserve_attr_dict>>

NextPrepare ==
  \/ ResolveConfig \/ SwapFunctionalModules \/ SnapshotAttrs
  \/ Trace \/ TraceFails
  \/ NamedModules \/ Deduplicate \/ ExtractConstants \/ MergeLookup
  \/ BuildGraphModule \/ ShapeProp
  \/ Quantize \/ QuantizeFails
  \/ RestoreAttrs

SpecPrepare == InitPrepare /\ [][NextPrepare]_vars

----------------------------------------------------------------------------
(* Vocabulary of the properties of the resolver                            *)

Returned == pc = "returned"

Req == request[1]

Res == result[1]

QD == Req.quant_dict

XP == Req.extra_qparams

SupportedChips == {"BM1688", "BM1684X", "CV183X", "BM1690", "Academic"}

\* weight_activation or weight_only, and not the rejected pair
AcceptedMode ==
  \/ QD.quantmode = "weight_activation"
  \/ (QD.quantmode = "weight_only" /\ QD.strategy # "CNN")

Range(seq) == {seq[i] : i \in DOMAIN seq}

\* the registry a fake-quantize name has to be in, per the specification
RequiredRegistry(chip) ==
  IF chip = "Academic" THEN DOMAIN FakeQuantizeDict ELSE DOMAIN FakeQuantizeDict_Chip

ObserverNamesValid ==
  /\ (Truthy(XP.w_observer) => XP.w_observer \in DOMAIN ObserverDict)
  /\ (Truthy(XP.a_observer) => XP.a_observer \in DOMAIN ObserverDict)

FakeQuantizeNamesValid ==
  /\ (Truthy(XP.w_fakequantize) => XP.w_fakequantize \in RequiredRegistry(QD.chip))
  /\ (Truthy(XP.a_fakequantize) => XP.a_fakequantize \in RequiredRegistry(QD.chip))

NamesValid == ObserverNamesValid /\ FakeQuantizeNamesValid

\* some explicit scheme override carries a bit width outside `allowed`
BitOutside(allowed) ==
  \/ (XP.w_qscheme # <<>> /\ XP.w_qscheme[1].bit \notin allowed)
  \/ (XP.a_qscheme # <<>> /\ XP.a_qscheme[1].bit \notin allowed)

AnyBit == {4, 8, 16}

\* bit widths as the claim has them: {4,8} on BM1688, {8} on every other chip
ClaimedBits(chip) == IF chip = "BM1688" THEN {4, 8} ELSE {8}

\* bit widths the asserts enforce: CV183X and Academic are not checked at all
EnforcedBits(chip) ==
  IF chip = "BM1688" THEN {4, 8}
  ELSE IF chip \in {"BM1684X", "BM1690"} THEN {8}
  ELSE AnyBit

----------------------------------------------------------------------------
(* C1 - C7: get_qconfig_by_platform                                        *)

\* C1: for every supported chip, a call with an empty override mapping and an
\* accepted mode/strategy succeeds and its default entry (key '') pairs, on
\* each side, the chip profile's default fake-quantize class, default
\* observer and default scheme (as the profile table holds them at the call),
\* with both sides present.
C1_DefaultEntryMatchesProfile ==
  (Returned /\ XP = EmptyOverrides /\ QD.chip \in SupportedChips /\ AcceptedMode) =>
     LET P == ParamsTable[QD.chip] IN
     /\ Res.err = NoErr
     /\ DOMAIN Res.qconfig = {""}
     /\ Res.qconfig[""].weight =
          with_args(P.default_weight_quantize, P.default_weight_observer,
                    EmptyDict, to_observer_params(P.w_qscheme))
     /\ Res.qconfig[""].activation =
          with_args(P.default_act_quantize, P.default_act_observer,
                    EmptyDict, to_observer_params(P.a_qscheme))
     /\ P.default_weight_quantize = FakeQuantizeDict["LearnableFakeQuantize"]
     /\ P.default_act_observer = ObserverDict["EMAMinMaxObserver"]

C1_Witness ==
  /\ Returned /\ XP = EmptyOverrides /\ QD.chip = "CV183X"
  /\ QD.quantmode = "weight_only" /\ QD.strategy = "Transformer"
  /\ Res.err = NoErr
  /\ Res.qconfig[""].weight.observer_params.symmetric_range

\* C2: resolution never mutates the process-wide chip-profile table: every
\* chip's default schemes, extra-params mapping included, stay equal to their
\* value at process start.
C2_TableNeverMutated == ParamsTable = ParamsTable0

\* C3 (as claimed, on the chips of the table): weight_only + CNN always ends
\* in the invalid-combination error, whatever the other fields.
C3_AlwaysCombinationError ==
  (Returned /\ QD.quantmode = "weight_only" /\ QD.strategy = "CNN"
     /\ QD.chip \in SupportedChips) =>
     Res.err = ErrCombination

\* C3 (amended): weight_only + CNN never returns a config; the error is the
\* invalid-combination error exactly when the chip is listed and the name and
\* bit-width checks, which run first, pass; otherwise it is the error of the
\* first of those that fails.
C3_CombinationRejected ==
  (Returned /\ QD.quantmode = "weight_only" /\ QD.strategy = "CNN") =>
     /\ Res.err # NoErr
     /\ Res.qconfig = EmptyDict
     /\ Res.err = ErrCombination <=>
          (QD.chip \in SupportedChips /\ NamesValid /\ ~BitOutside(EnforcedBits(QD.chip)))
     /\ (QD.chip \notin SupportedChips => Res.err = ErrUnbound)
     /\ (QD.chip \in SupportedChips /\ ~ObserverNamesValid => Res.err = ErrObserver)
     /\ (QD.chip \in SupportedChips /\ ObserverNamesValid /\ ~FakeQuantizeNamesValid
           => Res.err = ErrFakeQuantize)
     /\ (QD.chip \in SupportedChips /\ NamesValid /\ BitOutside(EnforcedBits(QD.chip))
           => Res.err = ErrBit)

C3_Witness ==
  /\ Returned /\ QD.quantmode = "weight_only" /\ QD.strategy = "CNN"
  /\ QD.chip = "BM1684X"
  /\ XP.module_name # <<>> /\ XP.int8_op # <<>> /\ XP.w_fakequantize = NONE
  /\ Res.err = ErrCombination

\* C4 (as claimed, on requests with an accepted mode): an explicit scheme
\* override is rejected with the unsupported-bit-width error exactly when its
\* bit is outside {4,8} on BM1688 or outside {8} on any other chip of the
\* table.
C4_OnlyEightElsewhere ==
  (Returned /\ QD.chip \in SupportedChips /\ NamesValid /\ AcceptedMode) =>
     (Res.err = ErrBit <=> BitOutside(ClaimedBits(QD.chip)))

\* C4 (amended): on BM1688 an override with bit 4 or 8 is accepted and any
\* other bit rejected; on BM1684X and BM1690 only bit 8 is accepted; on
\* CV183X and Academic no bit width is rejected.  Weight and activation side
\* alike.
C4_BitWidthValidation ==
  (Returned /\ QD.chip \in SupportedChips /\ NamesValid) =>
     (Res.err = ErrBit <=> BitOutside(EnforcedBits(QD.chip)))

C4_Witness ==
  /\ Returned /\ QD.chip = "BM1690"
  /\ XP.w_qscheme # <<>> /\ XP.w_qscheme[1].bit = 8
  /\ XP.a_qscheme # <<>> /\ XP.a_qscheme[1].bit = 4
  /\ Res.err = ErrBit

\* C5: each non-empty name override must be in its registry or resolution
\* fails: observers against ObserverDict, fake-quantize names against the
\* full registry on Academic and the hardware registry on every other chip;
\* an accepted name, not the chip default, is what the default entry uses.
C5_NameOverridesValidated ==
  (Returned /\ QD.chip \in SupportedChips) =>
     /\ (~ObserverNamesValid => Res.err = ErrObserver)
     /\ (ObserverNamesValid /\ ~FakeQuantizeNamesValid => Res.err = ErrFakeQuantize)
     /\ (NamesValid => Res.err \notin {ErrObserver, ErrFakeQuantize})
     /\ (Res.err = NoErr =>
           /\ (Truthy(XP.w_observer) =>
                 Res.qconfig[""].weight.observer = ObserverDict[XP.w_observer])
           /\ (Truthy(XP.a_observer) =>
                 Res.qconfig[""].activation.observer = ObserverDict[XP.a_observer])
           /\ (Truthy(XP.w_fakequantize) =>
                 Res.qconfig[""].weight.cls = FakeQuantizeDict[XP.w_fakequantize])
           /\ (Truthy(XP.a_fakequantize) =>
                 Res.qconfig[""].activation.cls = FakeQuantizeDict[XP.a_fakequantize]))

C5_Witness ==
  /\ Returned /\ QD.chip = "Academic"
  /\ XP.w_fakequantize = "NNIEFakeQuantize" /\ XP.a_fakequantize = "GPTQFakeQuantize"
  /\ Res.err = NoErr
  /\ Res.qconfig[""].weight.cls = FakeQuantizeDict["NNIEFakeQuantize"]
  /\ Res.qconfig[""].weight.cls # ParamsTable["Academic"].default_weight_quantize

BulkNames == Range(XP.int4_op) \cup Range(XP.int8_op) \cup Range(XP.f16_op)

BothSides(entry) ==
  entry.weight.kind = "with_args" /\ entry.activation.kind = "with_args"

\* the entry a module_name / object_type spec stands for
SingleSided(type_data) ==
  IF type_data.mode = "activation"
    THEN createQConfigForSophgo_activation(
           type_data.bit, type_data.afakequantize, type_data.aobserver).qconfig
  ELSE createQConfigForSophgo_weight(
           type_data.bit, type_data.wfakequantize, type_data.wobserver).qconfig

\* C6: a module name that is both a module_name key and in a bulk list ends
\* up with the bulk both-sides entry, not its single-sided module_name entry;
\* a name only in module_name keeps its module_name entry.
C6_BulkWinsOverModuleName ==
  (Returned /\ Res.err = NoErr) =>
     \A i \in DOMAIN XP.module_name :
        LET name == XP.module_name[i][1]
            entry == Res.qconfig["module_name"][name]
        IN IF name \in BulkNames
             THEN /\ entry \in {int4_qconfig, int8_qconfig, f16_qconfig}
                  /\ BothSides(entry)
                  /\ entry # SingleSided(XP.module_name[i][2])
           ELSE /\ entry = SingleSided(XP.module_name[i][2])
                /\ ~BothSides(entry)

C6_Witness ==
  /\ Returned /\ Res.err = NoErr
  /\ Len(XP.module_name) = 2
  /\ XP.module_name[1][1] = "layer1" /\ XP.module_name[2][1] = "layer2"
  /\ XP.int8_op = <<"layer1", "layer3">>
  /\ Res.qconfig["module_name"]["layer1"] = int8_qconfig
  /\ Res.qconfig["module_name"]["layer2"].weight = None

OnlyObjectType ==
  /\ XP.object_type # <<>>
  /\ XP = [EmptyOverrides EXCEPT !.object_type = XP.object_type]

EntriesWellFormed(items) ==
  \A i \in DOMAIN items :
     LET d == items[i][2] IN
     \/ (d.mode = "activation" /\ d.aobserver \in DOMAIN ObserverDict
           /\ d.afakequantize \in DOMAIN FakeQuantizeDict)
     \/ (d.mode = "weight" /\ d.wobserver \in DOMAIN ObserverDict
           /\ d.wfakequantize \in DOMAIN FakeQuantizeDict)

\* C7: with an override mapping holding only object_type entries (all with a
\* valid mode), the default entry equals the one resolved for the same chip,
\* mode and strategy with no overrides, and there is no module_name mapping.
C7_ObjectTypeLeavesDefault ==
  (Returned /\ OnlyObjectType) =>
     LET plain == get_qconfig_by_platform(QD, EmptyOverrides, ParamsTable) IN
     /\ (EntriesWellFormed(XP.object_type) /\ plain.err = NoErr => Res.err = NoErr)
     /\ (Res.err = NoErr =>
           /\ plain.err = NoErr
           /\ Res.qconfig[""] = plain.qconfig[""]
           /\ DOMAIN Res.qconfig = {"", "object_type"}
           /\ DOMAIN Res.qconfig["object_type"] =
                {XP.object_type[i][1] : i \in DOMAIN XP.object_type})

C7_Witness ==
  /\ Returned /\ OnlyObjectType /\ Len(XP.object_type) = 2
  /\ QD.chip = "BM1688" /\ Res.err = NoErr
  /\ ParamsTable # ParamsTable0
  /\ "module_name" \notin DOMAIN Res.qconfig

----------------------------------------------------------------------------
(* C8 - C10: duplicate_reused_nodes and the module lookup                  *)

\* duplicate_reused_nodes has returned
Deduplicated == gpc \in {"deduplicated", "constants", "merged", "AttributeError"}

CallModuleNodes(g) == {i \in DOMAIN g : g[i].op = "call_module"}

GetAttrNodes(g) == {i \in DOMAIN g : g[i].op = "get_attr"}

\* the call_module nodes of the traced graph with target t
Callers(t) == {i \in CallModuleNodes(traced) : traced[i].target = t}

\* how many callers of its target come before node i
Occurrence(i) == Cardinality({j \in Callers(traced[i].target) : j < i})

OriginalModules == named_modules(model)

\* every module-call target of the traced graph names a submodule of the model
AllTargetsInModuleTable ==
  \A i \in CallModuleNodes(traced) : traced[i].target \in DOMAIN OriginalModules

\* C8: after duplicate_reused_nodes returns (for a graph whose module-call
\* targets all name submodules of the model), each module-call target is
\* referenced by at most one node of the graph.
C8_TargetsUnique ==
  (Deduplicated /\ AllTargetsInModuleTable) =>
     \A i, j \in CallModuleNodes(graph) :
        graph[i].target = graph[j].target => i = j

\* C9: for a target called by k >= 2 nodes, the first keeps its target, each
\* other node is retargeted to <target>_dup<occurrence index>, these names are
\* pairwise distinct, and the new-module table holds exactly k-1 entries for
\* the target, keyed by the new node targets, each a deep copy of the original
\* submodule that is a separate object from every other entry and from every
\* module of the model.
C9_ClonesPerReusedTarget ==
  Deduplicated =>
     /\ \A i \in CallModuleNodes(traced) :
          LET t == traced[i].target
              k == Cardinality(Callers(t))
              later == {j \in Callers(t) : Occurrence(j) > 0}
          IN k >= 2 =>
               /\ (Occurrence(i) = 0 => graph[i].target = t)
               /\ (Occurrence(i) > 0 =>
                     /\ graph[i].target = t \o <<"_", "d", "u", "p">> \o str(Occurrence(i))
                     /\ graph[i].target \in DOMAIN dup_modules
                     /\ dup_modules[graph[i].target].state = OriginalModules[t].state)
               /\ Cardinality({graph[j].target : j \in later}) = k - 1
               /\ \A j \in later : j # i => graph[j].target # graph[i].target
     /\ DOMAIN dup_modules =
          {graph[i].target : i \in {j \in CallModuleNodes(traced) : Occurrence(j) > 0}}
     /\ \A x, y \in DOMAIN dup_modules :
          dup_modules[x].id = dup_modules[y].id => x = y
     /\ \A x \in DOMAIN dup_modules : \A n \in DOMAIN OriginalModules :
          dup_modules[x].id # OriginalModules[n].id

C9_Witness ==
  /\ gpc = "deduplicated"
  /\ Cardinality(Callers(Name_a)) = 3
  /\ Cardinality(DOMAIN dup_modules) = 2
  /\ Name_a \o _dup_prefix \o <<"2">> \in DOMAIN dup_modules

\* C10: if every module-call target is a key of the module table before
\* duplicate_reused_nodes, then it returns, afterwards every module-call
\* target is a key of the module table or of the new-module table, every
\* attribute-get target is a key of the constant table, and the merged lookup
\* handed to GraphModule has every node target as a key.
C10_TargetsResolvable ==
  AllTargetsInModuleTable =>
     /\ gpc # ErrKey
     /\ (Deduplicated =>
           \A i \in CallModuleNodes(graph) :
              graph[i].target \in (DOMAIN OriginalModules) \cup (DOMAIN dup_modules))
     /\ (gpc \in {"constants", "merged"} =>
           \A i \in GetAttrNodes(graph) : graph[i].target \in DOMAIN constant_dict)
     /\ (gpc = "merged" =>
           \A i \in CallModuleNodes(graph) \cup GetAttrNodes(graph) :
              graph[i].target \in DOMAIN modules)

C10_Witness ==
  /\ gpc = "merged"
  /\ AllTargetsInModuleTable
  /\ Cardinality(DOMAIN dup_modules) = 1
  /\ Cardinality(DOMAIN constant_dict) = 2

----------------------------------------------------------------------------
(* C11: prepare_constant_dict                                              *)

\* the attribute path a target names
PathOf(target) == split_dots(target, 1, <<>>)

\* some segment of the path does not exist on the object reached so far
BrokenPath(tree, target) ==
  \E k \in 1..Len(PathOf(target)) : SubSeq(PathOf(target), 1, k) \notin DOMAIN tree

\* prepare_constant_dict has been called and has returned or raised
ConstantsDone == gpc \in {"constants", "merged", "AttributeError"}

\* C11: prepare_constant_dict returns a table whose keys are exactly the
\* targets of the graph's attribute-get nodes, each mapped to the value found
\* by walking the dotted path from the model root; it raises the
\* attribute error, and returns no table, exactly when some segment of some
\* attribute-get path does not exist.
C11_ConstantTable ==
  ConstantsDone =>
     LET targets == {graph[i].target : i \in GetAttrNodes(graph)}
         broken == \E t \in targets : BrokenPath(model, t)
     IN /\ (gpc = "AttributeError") = broken
        /\ (broken => constant_dict = EmptyDict)
        /\ (~broken =>
              /\ DOMAIN constant_dict = targets
              /\ \A t \in targets : constant_dict[t] = model[PathOf(t)])

C11_Witness ==
  /\ gpc = "constants"
  /\ Name_a \o <<".">> \o Name_w \in DOMAIN constant_dict
  /\ Name_w \in DOMAIN constant_dict
  /\ constant_dict[Name_a \o <<".">> \o Name_w] = Tensor(<<Name_a, Name_w>>)
  /\ CallModuleNodes(graph) # {}
  /\ \E i \in DOMAIN graph : graph[i].op = "call_method"

----------------------------------------------------------------------------
(* C12: a chip that has no profile                                         *)

BothSchemesOverridden == XP.w_qscheme # <<>> /\ XP.a_qscheme # <<>>

\* C12: a call whose chip is not a key of the chip-profile table fails with
\* an error whatever the other inputs are, overridden schemes included: no
\* configuration is returned and no object_type, module_name or bulk entry is
\* built.
C12_UnknownChipFails ==
  (Returned /\ QD.chip \notin DOMAIN ParamsTable0) =>
     /\ Res.err # NoErr
     /\ Res.qconfig = EmptyDict

C12_Witness ==
  /\ Returned /\ QD.chip \notin DOMAIN ParamsTable0
  /\ BothSchemesOverridden
  /\ AcceptedMode
  /\ XP.object_type # <<>> /\ XP.module_name # <<>> /\ XP.int8_op # <<>>
  /\ Res.err = ErrUnbound

----------------------------------------------------------------------------
(* C13: the mode of object_type and module_name entries                    *)

\* the entries in the order the two loops visit them
EntriesInOrder == XP.object_type \o XP.module_name

ModeValid(type_data) == type_data.mode \in {"activation", "weight"}

SomeModeInvalid == \E i \in DOMAIN EntriesInOrder : ~ModeValid(EntriesInOrder[i][2])

\* the same call without object_type, module_name and bulk lists: the steps
\* that run before the two loops
BeforeEntries ==
  get_qconfig_by_platform(QD,
     [XP EXCEPT !.object_type = <<>>, !.module_name = <<>>,
                !.int4_op = <<>>, !.int8_op = <<>>, !.f16_op = <<>>],
     ParamsTable)

\* the first entry that does not build is one with an invalid mode
FirstFailureIsMode ==
  \E i \in DOMAIN EntriesInOrder :
     /\ ~ModeValid(EntriesInOrder[i][2])
     /\ EntriesWellFormed(SubSeq(EntriesInOrder, 1, i - 1))

\* the fixed scheme of a single-sided entry, as handed to the algorithm
FixedSchemeParams(params, bit, symmetric_range) ==
  /\ params.symmetry /\ ~params.per_channel /\ ~params.pot_scale
  /\ params.bit = bit
  /\ params.symmetric_range = symmetric_range

\* the installed entry is what its spec asks for
InstalledAsSpecified(entry, type_data) ==
  IF type_data.mode = "activation"
    THEN /\ entry.weight = None
         /\ entry.activation.kind = "with_args"
         /\ entry.activation.cls = FakeQuantizeDict[type_data.afakequantize]
         /\ entry.activation.observer = ObserverDict[type_data.aobserver]
         /\ FixedSchemeParams(entry.activation.observer_params, type_data.bit, FALSE)
  ELSE /\ entry.weight.kind = "with_args"
       /\ entry.weight.cls = FakeQuantizeDict[type_data.wfakequantize]
       /\ entry.weight.observer = ObserverDict[type_data.wobserver]
       /\ FixedSchemeParams(entry.weight.observer_params, type_data.bit, TRUE)
       /\ entry.activation = Identity

\* C13 as stated: an entry whose mode is neither 'activation' nor 'weight'
\* always makes the call fail with the invalid-mode error.
C13_AlwaysModeError ==
  (Returned /\ QD.chip \in SupportedChips /\ SomeModeInvalid) => Res.err = ErrMode

\* C13: an object_type or module_name entry whose mode is neither
\* 'activation' nor 'weight' (a missing mode included) makes the call fail and
\* no config is returned; the error is the invalid-mode error exactly when the
\* steps before the loops pass and every entry visited before it builds.  In a
\* returned config an 'activation' entry has no weight side, and a 'weight'
\* entry has a symmetric, per-tensor, non-power-of-two, symmetric-range weight
\* scheme of the given bit width.
C13_ModeValidation ==
  Returned =>
     /\ (SomeModeInvalid => (Res.err # NoErr /\ Res.qconfig = EmptyDict))
     /\ (Res.err = ErrMode) = (BeforeEntries.err = NoErr /\ FirstFailureIsMode)
     /\ (Res.err = NoErr =>
           /\ \A i \in DOMAIN XP.object_type :
                 InstalledAsSpecified(Res.qconfig["object_type"][XP.object_type[i][1]],
                                      XP.object_type[i][2])
           /\ \A i \in DOMAIN XP.module_name :
                 XP.module_name[i][1] \notin BulkNames =>
                    InstalledAsSpecified(Res.qconfig["module_name"][XP.module_name[i][1]],
                                         XP.module_name[i][2]))

\* an entry that does not build comes before the one with the invalid mode
C13_EarlierEntryFails ==
  /\ Returned /\ QD.chip = "BM1688" /\ AcceptedMode
  /\ SomeModeInvalid /\ ~FirstFailureIsMode
  /\ Res.err = ErrKey

C13_Witness ==
  /\ Returned /\ QD.chip = "BM1688" /\ AcceptedMode
  /\ Len(XP.object_type) = 2
  /\ ~ModeValid(XP.object_type[1][2])
  /\ Res.err = ErrMode

----------------------------------------------------------------------------
(* C14: the entries of the bulk lists                                      *)

\* the bit width of the last bulk branch that assigns the name; the branches
\* run in the order int4, int8, f16
BulkBit(name) ==
  IF name \in Range(XP.f16_op) THEN 16
  ELSE IF name \in Range(XP.int8_op) THEN 8
  ELSE 4

\* C14: in a returned config every module_name entry installed by a bulk list
\* has a weight side and an activation side of the same bit width, that of
\* the list that installed it (4 for int4_op, 8 for int8_op, 16 for f16_op),
\* and a 16-bit entry uses Fp16FakeQuantize on both sides; chip and the scheme
\* and name overrides of the request make no difference.
C14_BulkEntriesBothSides ==
  (Returned /\ Res.err = NoErr) =>
     \A name \in BulkNames :
        LET entry == Res.qconfig["module_name"][name] IN
        /\ BothSides(entry)
        /\ entry.weight.observer_params.bit = entry.activation.observer_params.bit
        /\ entry.weight.observer_params.bit = BulkBit(name)
        /\ (BulkBit(name) = 16 =>
              /\ entry.weight.cls = FakeQuantizeDict["Fp16FakeQuantize"]
              /\ entry.activation.cls = FakeQuantizeDict["Fp16FakeQuantize"])

C14_Witness ==
  /\ Returned /\ Res.err = NoErr /\ QD.chip = "Academic"
  /\ XP.w_qscheme = <<SchemeDict(4)>> /\ XP.a_qscheme = <<SchemeDict(8)>>
  /\ XP.w_fakequantize = "NNIEFakeQuantize"
  /\ XP.int8_op = <<"layer1">>
  /\ Res.qconfig[""].weight.observer_params.bit = 4
  /\ Res.qconfig["module_name"]["layer1"].weight.observer_params.bit = 8

\* a name listed in int4_op and int8_op, and one listed in all three
C14_SeveralLists ==
  /\ Returned /\ Res.err = NoErr
  /\ XP.int4_op = <<"layer1">> /\ XP.f16_op = <<"layer3">>
  /\ "layer3" \in Range(XP.int8_op)
  /\ Res.qconfig["module_name"]["layer1"] = int8_qconfig
  /\ Res.qconfig["module_name"]["layer3"] = f16_qconfig

----------------------------------------------------------------------------
(* C15, C16: prepare_by_platform                                           *)

\* the steps of one call, in the order the claim gives them
StepOrder ==
  <<"resolve", "swap", "snapshot", "trace", "deduplicate", "constants", "graph_module">>
  \o (IF custom_config.input_shape_dict THEN <<"shape_prop">> ELSE <<>>)
  \o <<"quantizer", "restore">>

\* the steps completed so far, a failed shape propagation counted as that step
StepsDone ==
  [i \in DOMAIN trail |-> IF trail[i] = "shape_prop_failed" THEN "shape_prop" ELSE trail[i]]

ResolutionFailed == result # <<>> /\ result[1].err # NoErr

\* C15: the steps of prepare_by_platform complete in the order resolve, swap,
\* snapshot, trace, deduplicate, constants, graph module, shape propagation
\* (when shapes are given), quantizer, restore, none before its predecessor;
\* when the configuration cannot be resolved the model is neither swapped nor
\* traced and no quantizer is invoked.
C15_StepsInOrder ==
  /\ Len(StepsDone) <= Len(StepOrder)
  /\ StepsDone = SubSeq(StepOrder, 1, Len(StepsDone))
  /\ swapped = ("swap" \in Range(trail))
  /\ (gpc \in {"traced", "named_modules", "deduplicated", "constants", "merged"}
        => "trace" \in Range(trail))
  /\ (prepared # <<>>) = ("quantizer" \in Range(trail))
  /\ (gpc = "returned") = ("restore" \in Range(trail))
  /\ (ResolutionFailed =>
        /\ ~swapped /\ trail = <<>> /\ traced = <<>> /\ prepared = <<>>
        /\ gpc = result[1].err)

C15_Witness ==
  /\ gpc = "returned"
  /\ custom_config.input_shape_dict
  /\ Len(trail) = 10
  /\ Len(traced) = 2
  /\ dup_modules # EmptyDict

\* a call whose configuration is rejected
C15_ResolutionFailed ==
  /\ ResolutionFailed /\ result[1].err = ErrCombination
  /\ custom_config.preserve_attr # <<>>

\* what restoring a snapshotted value on an object asks for: the value itself,
\* a bound method with the object as its receiver
Rebound(value, object) ==
  IF value.kind = "method" THEN Method(value.func, object.id) ELSE value

\* C16: when prepare_by_platform returns, every attribute named in
\* preserve_attr is set on the prepared model's corresponding object with the
\* value the original model had before the trace, a bound method keeping its
\* function and taking the prepared object as receiver; a failed shape
\* propagation changes nothing of this.
C16_AttrsRestored ==
  (gpc = "returned" /\ custom_config.preserve_attr # <<>>) =>
     \A i \in DOMAIN custom_config.preserve_attr[1] :
        LET at == cur_module_path(custom_config.preserve_attr[1][i][1])
            attrs == custom_config.preserve_attr[1][i][2]
        IN \A j \in DOMAIN attrs :
              LET path == Append(at, attrs[j])
              IN /\ path \in DOMAIN prepared[1].tree
                 /\ prepared[1].tree[path] = Rebound(model[path], prepared[1].tree[at])

\* the same with the attributes the code handles as described: plain values
\* and bound methods whose function is the one the class defines under the
\* attribute's name
C16_ClassDefinedRestored ==
  (gpc = "returned" /\ custom_config.preserve_attr # <<>>) =>
     \A i \in DOMAIN custom_config.preserve_attr[1] :
        LET at == cur_module_path(custom_config.preserve_attr[1][i][1])
            attrs == custom_config.preserve_attr[1][i][2]
        IN \A j \in DOMAIN attrs :
              LET path == Append(at, attrs[j])
              IN (model[path].kind = "method" => model[path].func = <<TypeOf(at), attrs[j]>>)
                   => /\ path \in DOMAIN prepared[1].tree
                      /\ prepared[1].tree[path] =
                           Rebound(model[path], prepared[1].tree[at])

\* a run that returns after a failed shape propagation, attributes restored
C16_ReturnedAfterShapeFailure ==
  /\ gpc = "returned"
  /\ "shape_prop_failed" \in Range(trail)
  /\ custom_config.preserve_attr # <<>>
  /\ Len(custom_config.preserve_attr[1]) = 2
  /\ <<Name_a, Attr_f>> \in DOMAIN prepared[1].tree

----------------------------------------------------------------------------
(* C17: the quantization mode                                              *)

\* C17: a configuration is returned only for quantmode weight_activation or
\* weight_only; any other quantmode makes the call fail.
C17_UnknownModeRejected ==
  (Returned /\ Res.err = NoErr) =>
     QD.quantmode \in {"weight_activation", "weight_only"}

----------------------------------------------------------------------------
(* C18: algorithms of a config resolved for a hardware chip                *)

\* the fake-quantize classes an entry names
EntryAlgorithms(entry) ==
  {side.cls : side \in {x \in {entry.activation, entry.weight} : x.kind = "with_args"}}

\* every fake-quantize class named anywhere in a returned config
ConfigAlgorithms(qconfig) ==
  EntryAlgorithms(qconfig[""])
  \cup UNION {UNION {EntryAlgorithms(qconfig[key][k]) : k \in DOMAIN qconfig[key]} :
               key \in (DOMAIN qconfig) \ {""}}

\* C18: on every chip other than Academic, each fake-quantize algorithm of a
\* returned config (default entry, object_type, module_name and bulk entries)
\* is in the hardware-restricted registry FakeQuantizeDict_Chip.
C18_HardwareAlgorithmsOnly ==
  (Returned /\ Res.err = NoErr /\ QD.chip # "Academic") =>
     \A cls \in ConfigAlgorithms(Res.qconfig) :
        \E name \in DOMAIN FakeQuantizeDict_Chip : FakeQuantizeDict_Chip[name] = cls

----------------------------------------------------------------------------
(* C19: the names given to clones                                          *)

\* C19: no key of the new-module table is a key of the module table handed
\* to duplicate_reused_nodes, so the merge in prepare_by_platform only adds
\* entries and keeps every submodule registered under its name; nodes other
\* than second or later callers of a reused target are left as traced.
C19_CloneNamesFresh ==
  (Deduplicated /\ AllTargetsInModuleTable) =>
     /\ (DOMAIN dup_modules) \cap (DOMAIN OriginalModules) = {}
     /\ (gpc = "merged" =>
           \A n \in DOMAIN OriginalModules : modules[n] = OriginalModules[n])
     /\ (gpc # "merged" => modules = OriginalModules)
     /\ \A i \in DOMAIN traced :
           (i \notin CallModuleNodes(traced) \/ Occurrence(i) = 0) => graph[i] = traced[i]

====
